---- MODULE Spec2Model ----
(***************************************************************************)
(* The validation and derivation core of the airport booking models:       *)
(* flight scheduling (airplane and crew overlap), ticket seat bounds and   *)
(* ticket pricing, as written in airport/models.py, airport/forms.py and   *)
(* airport/admin.py.                                                       *)
(*                                                                         *)
(* Times are integers 1..MaxTime.  Money is counted in cents, multipliers  *)
(* in hundredths (1.50 is 150).  Primary keys are positive integers, 0     *)
(* stands for "no primary key yet" (an unsaved instance).                  *)
(***************************************************************************)
EXTENDS Integers, FiniteSets

\* ------------------------------------------------------------------ bounds
MaxTime == 4
NumFlights == 2
NumTickets == 2
MaxRows == 2

Times == 1..MaxTime
FlightIds == 1..NumFlights
TicketIds == 1..NumTickets
\* Reference rows that exist from the start: two airplanes, two crew members,
\* two routes' primary keys, two seat classes, two airports.
AirplaneIds == {1, 2}
CrewMembers == {1, 2}
RouteIds == {1, 2}
SeatClassIds == {1, 2}
AirportIds == {1, 2}
\* Values a client may submit.
RowInputs == 0..(MaxRows + 1)
SeatInputs == {0, 1, 2}
DistanceInputs == {0, 5, 1000}
PriceInputs == {0, 15000}
Rosters == (SUBSET CrewMembers) \ {{}}
Procs == {1, 2}

NoPk == 0
NoFlight == [airplane |-> 0, route |-> 0, crew_members |-> {}, departure_time |-> 0, arrival_time |-> 0]
NoTicket == [flight |-> 0, row |-> 0, seat |-> 0, seat_class |-> 0, price |-> 0]
NoError == [kind |-> "none", member |-> 0]
Idle == [op |-> "idle"]
NoRequest == [pk |-> NoPk, row |-> NoFlight]

VARIABLES
  airplanes,   \* Airplane rows: pk -> [rows, seats_in_row]
  routes,      \* Route rows: pk -> [source, destination, distance]
  flights,     \* Flight rows with their crew_members relation: pk -> row, or NoFlight
  tickets,     \* Ticket rows: pk -> row, or NoTicket
  last,        \* the request just handled and its outcome, or Idle
  pc,          \* concurrent admin requests: where each one stands
  req,         \* concurrent admin requests: the submitted form
  verdict      \* concurrent admin requests: the errors validation found

vars == <<airplanes, routes, flights, tickets, last, pc, req, verdict>>

\* SeatClass.multiplier of the two seat classes, in hundredths.
Multiplier(sc) == IF sc = 1 THEN 125 ELSE 150

stored(table, none) == {i \in DOMAIN table : table[i] # none}

\* The next primary key the store hands out (rows are never deleted here).
NewPk(table, none) ==
  IF \E i \in DOMAIN table : table[i] = none
  THEN CHOOSE i \in DOMAIN table : table[i] = none /\ \A j \in DOMAIN table : j < i => table[j] # none
  ELSE NoPk

\* ------------------------------------------------------- scheduling core
\* The overlap test of the three loops, open-interval by mistake.
OverlapsOpen(flight, departure, arrival) ==
  flight.departure_time < arrival /\ flight.arrival_time > departure

\* flight.departure_time <= arrival and flight.arrival_time >= departure
Overlaps(flight, departure, arrival) ==
  flight.departure_time <= arrival /\ flight.arrival_time >= departure

AirplaneFlightsAll(store, airplane, pk) ==
  {i \in stored(store, NoFlight) : store[i].airplane = airplane}

\* self.airplane.flights.exclude(pk=self.pk)
AirplaneFlights(store, airplane, pk) ==
  {i \in stored(store, NoFlight) : store[i].airplane = airplane /\ i # pk}

MemberFlightsAll(store, member, pk) ==
  {i \in stored(store, NoFlight) : member \in store[i].crew_members}

\* member.flights.exclude(pk=...)
MemberFlights(store, member, pk) ==
  {i \in stored(store, NoFlight) : member \in store[i].crew_members /\ i # pk}

\* self.crew_members.all(): the roster rows stored for this flight.  An unsaved
\* flight has none (Django itself refuses to build the relation of an instance
\* without a primary key; the lenient reading taken here only adds successful
\* creates, so it loses no reachable store).
StoredRoster(store, pk) == IF pk = NoPk THEN {} ELSE store[pk].crew_members

Conflicting(store, members, pk, departure, arrival) ==
  {m \in members : \E i \in MemberFlights(store, m, pk) : Overlaps(store[i], departure, arrival)}

FlightCleanNoAirplane(store, pk, airplane, departure, arrival) ==
  LET bad == Conflicting(store, StoredRoster(store, pk), pk, departure, arrival)
  IN  IF bad # {} THEN {[kind |-> "crew", member |-> m] : m \in bad}
      ELSE IF arrival <= departure THEN {[kind |-> "time", member |-> 0]}
      ELSE {NoError}

\* Flight.clean: the set of errors it may raise ({NoError} when it passes).  The
\* roster is iterated in no stated order, so any conflicting member may be the
\* one named.
FlightClean(store, pk, airplane, departure, arrival) ==
  IF \E i \in AirplaneFlights(store, airplane, pk) : Overlaps(store[i], departure, arrival)
  THEN {[kind |-> "airplane", member |-> 0]}
  ELSE LET bad == Conflicting(store, StoredRoster(store, pk), pk, departure, arrival)
       IN  IF bad # {} THEN {[kind |-> "crew", member |-> m] : m \in bad}
           ELSE IF arrival <= departure THEN {[kind |-> "time", member |-> 0]}
           ELSE {NoError}

FormCleanStoredOnly(store, pk, crew_members, departure, arrival) ==
  LET bad == Conflicting(store, StoredRoster(store, pk), pk, departure, arrival)
  IN  IF bad # {} THEN {[kind |-> "crew", member |-> m] : m \in bad} ELSE {NoError}

\* FlightAdminForm.clean: the candidate roster against each member's other flights.
FlightAdminFormClean(store, pk, crew_members, departure, arrival) ==
  IF crew_members # {}
  THEN LET bad == Conflicting(store, crew_members, pk, departure, arrival)
       IN  IF bad # {} THEN {[kind |-> "crew", member |-> m] : m \in bad} ELSE {NoError}
  ELSE {NoError}

FlightRow(airplane, route, crew_members, departure, arrival) ==
  [airplane |-> airplane, route |-> route, crew_members |-> crew_members,
   departure_time |-> departure, arrival_time |-> arrival]

\* The admin's add view (pk = NoPk) or change view of a Flight: the form's clean,
\* then the model's clean on the instance built from the form, and only when
\* neither raised, save() and save_m2m().
FlightAdminSave(pk, airplane, route, crew_members, departure, arrival) ==
  /\ last = Idle
  /\ IF pk = NoPk THEN NewPk(flights, NoFlight) # NoPk ELSE flights[pk] # NoFlight
  /\ \E fe \in FlightAdminFormClean(flights, pk, crew_members, departure, arrival) :
     \E me \in FlightClean(flights, pk, airplane, departure, arrival) :
       LET ok == fe = NoError /\ me = NoError
           id == IF pk = NoPk THEN NewPk(flights, NoFlight) ELSE pk
           row == FlightRow(airplane, route, crew_members, departure, arrival)
       IN  /\ flights' = IF ok THEN [flights EXCEPT ![id] = row] ELSE flights
           /\ last' = [op |-> "flight", pk |-> pk, id |-> IF ok THEN id ELSE pk,
                       row |-> row, before |-> IF pk = NoPk THEN NoFlight ELSE flights[pk],
                       form_error |-> fe, model_error |-> me, ok |-> ok]
  /\ UNCHANGED <<airplanes, routes, tickets, pc, req, verdict>>

\* The response is returned; the next request may be handled.
Respond ==
  /\ last # Idle
  /\ last' = Idle
  /\ UNCHANGED <<airplanes, routes, flights, tickets, pc, req, verdict>>

\* ------------------------------------------------------------ commerce
\* n / k rounded to the nearest integer, ties to the even one: what
\* Decimal.quantize does under the default context (n >= 0, k > 0).
HalfEven(n, k) ==
  LET q == n \div k
      r == n % k
  IN  IF 2 * r < k THEN q
      ELSE IF 2 * r > k THEN q + 1
      ELSE IF q % 2 = 0 THEN q ELSE q + 1

get_price_half_up(distance, multiplier) == (distance * multiplier + 5) \div 10

\* Ticket.get_price, in cents: Decimal("0.1") * distance * multiplier, quantized
\* to 0.01.  distance * multiplier counts thousandths.
get_price(distance, multiplier) == HalfEven(distance * multiplier, 10)

\* Ticket.clean
TicketClean(airplane, row, seat) ==
  IF row <= 0 \/ seat <= 0 THEN [kind |-> "nonpositive", member |-> 0]
  ELSE IF row > airplane.rows \/ seat > airplane.seats_in_row
       THEN [kind |-> "layout", member |-> 0]
       ELSE NoError

\* unique_together = ("flight", "row", "seat"), checked by full_clean
TicketUnique(pk, flight, row, seat) ==
  \A t \in stored(tickets, NoTicket) :
    t # pk => ~(tickets[t].flight = flight /\ tickets[t].row = row /\ tickets[t].seat = seat)

\* Ticket.save: full_clean, then the price is recomputed, then the row is written.
TicketSave(pk, flight, row, seat, seat_class, price) ==
  /\ last = Idle
  /\ IF pk = NoPk THEN NewPk(tickets, NoTicket) # NoPk ELSE tickets[pk] # NoTicket
  /\ flights[flight] # NoFlight
  /\ LET ce == TicketClean(airplanes[flights[flight].airplane], row, seat)
         err == IF ce # NoError THEN ce
                ELSE IF ~TicketUnique(pk, flight, row, seat) THEN [kind |-> "unique", member |-> 0]
                ELSE NoError
         ok == err = NoError
         id == IF pk = NoPk THEN NewPk(tickets, NoTicket) ELSE pk
         derived == get_price(routes[flights[flight].route].distance, Multiplier(seat_class))
         row_ == [flight |-> flight, row |-> row, seat |-> seat, seat_class |-> seat_class,
                  price |-> derived]
     IN  /\ tickets' = IF ok THEN [tickets EXCEPT ![id] = row_] ELSE tickets
         /\ last' = [op |-> "ticket", pk |-> pk, id |-> IF ok THEN id ELSE pk,
                     flight |-> flight, row |-> row, seat |-> seat, seat_class |-> seat_class,
                     supplied |-> price, error |-> err, ok |-> ok]
  /\ UNCHANGED <<airplanes, routes, flights, pc, req, verdict>>

\* --------------------------------------------------------------- fleet
\* Airplane.clean; tail_ok is whether tail_number matches the registration pattern.
AirplaneClean(tail_ok, rows, seats_in_row) ==
  IF ~tail_ok THEN [kind |-> "tail_number", member |-> 0]
  ELSE IF rows <= 0 \/ seats_in_row <= 0 THEN [kind |-> "layout", member |-> 0]
  ELSE NoError

\* Airplane.save of a stored airplane: full_clean, then the row is written.
AirplaneSave(pk, tail_ok, rows, seats_in_row) ==
  /\ last = Idle
  /\ LET err == AirplaneClean(tail_ok, rows, seats_in_row)
         ok == err = NoError
     IN  /\ airplanes' = IF ok THEN [airplanes EXCEPT ![pk] = [rows |-> rows, seats_in_row |-> seats_in_row]]
                         ELSE airplanes
         /\ last' = [op |-> "airplane", pk |-> pk, error |-> err, ok |-> ok]
  /\ UNCHANGED <<routes, flights, tickets, pc, req, verdict>>

\* ------------------------------------------------------------- routing
\* Route.clean
RouteClean(source, destination, distance) ==
  IF source = destination THEN [kind |-> "same_airport", member |-> 0]
  ELSE IF distance <= 0 THEN [kind |-> "distance", member |-> 0]
  ELSE NoError

\* Route defines no save(): Model.save writes the row and never calls clean.
RouteSave(pk, source, destination, distance) ==
  /\ last = Idle
  /\ routes' = [routes EXCEPT ![pk] = [source |-> source, destination |-> destination,
                                       distance |-> distance]]
  /\ last' = [op |-> "route", pk |-> pk,
              clean |-> RouteClean(source, destination, distance) = NoError, ok |-> TRUE]
  /\ UNCHANGED <<airplanes, flights, tickets, pc, req, verdict>>

\* Flight defines no save() either: Model.save writes the row's columns and
\* never calls clean; the crew_members relation is left as stored.
FlightSave(pk, airplane, route, departure, arrival) ==
  /\ last = Idle
  /\ IF pk = NoPk THEN NewPk(flights, NoFlight) # NoPk ELSE flights[pk] # NoFlight
  /\ LET id == IF pk = NoPk THEN NewPk(flights, NoFlight) ELSE pk
         row == FlightRow(airplane, route, StoredRoster(flights, pk), departure, arrival)
     IN  /\ flights' = [flights EXCEPT ![id] = row]
         /\ last' = [op |-> "flight_save", pk |-> pk, id |-> id, row |-> row,
                     clean |-> NoError \in FlightClean(flights, pk, airplane, departure, arrival),
                     ok |-> TRUE]
  /\ UNCHANGED <<airplanes, routes, tickets, pc, req, verdict>>

\* ------------------------------------------- two admin requests at once
\* Neither the form nor the model takes a lock or opens a transaction: a
\* request reads the other flights and validates, and writes later.
Validate(p, pk, airplane, crew_members, departure, arrival) ==
  /\ pc[p] = "idle"
  /\ pk # NoPk => flights[pk] # NoFlight
  /\ \E fe \in FlightAdminFormClean(flights, pk, crew_members, departure, arrival) :
     \E me \in FlightClean(flights, pk, airplane, departure, arrival) :
       verdict' = [verdict EXCEPT ![p] = IF fe # NoError THEN fe ELSE me]
  /\ req' = [req EXCEPT ![p] = [pk |-> pk, row |-> FlightRow(airplane, 1, crew_members, departure, arrival)]]
  /\ pc' = [pc EXCEPT ![p] = "validated"]
  /\ UNCHANGED <<airplanes, routes, flights, tickets, last>>

\* form.save(): the row and its roster are written.
Commit(p) ==
  /\ pc[p] = "validated"
  /\ verdict[p] = NoError
  /\ IF req[p].pk = NoPk THEN NewPk(flights, NoFlight) # NoPk ELSE TRUE
  /\ LET id == IF req[p].pk = NoPk THEN NewPk(flights, NoFlight) ELSE req[p].pk
     IN  flights' = [flights EXCEPT ![id] = req[p].row]
  /\ pc' = [pc EXCEPT ![p] = "idle"]
  /\ req' = [req EXCEPT ![p] = NoRequest]
  /\ UNCHANGED <<airplanes, routes, tickets, last, verdict>>

\* The form is shown again with its errors; nothing is written.
Reject(p) ==
  /\ pc[p] = "validated"
  /\ verdict[p] # NoError
  /\ pc' = [pc EXCEPT ![p] = "idle"]
  /\ req' = [req EXCEPT ![p] = NoRequest]
  /\ verdict' = [verdict EXCEPT ![p] = NoError]
  /\ UNCHANGED <<airplanes, routes, flights, tickets, last>>

Init ==
  /\ airplanes = [p \in AirplaneIds |-> [rows |-> MaxRows, seats_in_row |-> 1]]
  /\ routes = [r \in RouteIds |-> IF r = 1 THEN [source |-> 1, destination |-> 2, distance |-> 1000]
                                           ELSE [source |-> 2, destination |-> 1, distance |-> 5]]
  /\ flights = [f \in FlightIds |-> NoFlight]
  /\ tickets = [t \in TicketIds |-> NoTicket]
  /\ last = Idle
  /\ pc = [p \in Procs |-> "idle"]
  /\ req = [p \in Procs |-> NoRequest]
  /\ verdict = [p \in Procs |-> NoError]

\* One admin flight write at a time.
NextFlights ==
  \/ \E pk \in {NoPk} \cup FlightIds, airplane \in AirplaneIds, crew_members \in Rosters,
        departure \in Times, arrival \in Times :
       FlightAdminSave(pk, airplane, 1, crew_members, departure, arrival)
  \/ Respond

SpecFlights == Init /\ [][NextFlights]_vars

\* Ticket sales on one flight slot: admin writes of a flight in the slot (1, 2)
\* with crew member 1, and ticket saves.
NextTickets ==
  \/ \E pk \in {NoPk} \cup FlightIds, airplane \in AirplaneIds, route \in RouteIds :
       FlightAdminSave(pk, airplane, route, {1}, 1, 2)
  \/ \E pk \in {NoPk} \cup TicketIds, flight \in FlightIds, row \in RowInputs, seat \in SeatInputs,
        seat_class \in SeatClassIds, price \in PriceInputs :
       TicketSave(pk, flight, row, seat, seat_class, price)
  \/ Respond

SpecTickets == Init /\ [][NextTickets]_vars

\* Tickets, flights and airplanes written in turn (tickets of seat class 1).
NextLayout ==
  \/ \E pk \in {NoPk} \cup FlightIds, airplane \in AirplaneIds :
       FlightAdminSave(pk, airplane, 1, {1}, 1, 2)
  \/ \E pk \in {NoPk} \cup TicketIds, flight \in FlightIds, row \in RowInputs, seat \in SeatInputs :
       TicketSave(pk, flight, row, seat, 1, 0)
  \/ \E pk \in AirplaneIds, tail_ok \in BOOLEAN, rows \in RowInputs, seats_in_row \in SeatInputs :
       AirplaneSave(pk, tail_ok, rows, seats_in_row)
  \/ Respond

SpecLayout == Init /\ [][NextLayout]_vars

\* The save() operations of Route and Flight (flights of airplane 1 in the first
\* two time points).
NextSave ==
  \/ \E pk \in RouteIds, source \in AirportIds, destination \in AirportIds, distance \in DistanceInputs :
       RouteSave(pk, source, destination, distance)
  \/ \E pk \in {NoPk} \cup FlightIds, departure \in 1..2, arrival \in 1..2 :
       FlightSave(pk, 1, 1, departure, arrival)
  \/ Respond

SpecSave == Init /\ [][NextSave]_vars

\* Two admin flight writes in flight at once.
ConcWindows == {<<1, 2>>, <<2, 3>>}
NextConc ==
  \/ \E p \in Procs, pk \in {NoPk} \cup FlightIds, airplane \in AirplaneIds,
        member \in CrewMembers, w \in ConcWindows :
       Validate(p, pk, airplane, {member}, w[1], w[2])
  \/ \E p \in Procs : Commit(p)
  \/ \E p \in Procs : Reject(p)

SpecConc == Init /\ [][NextConc]_vars

\* Every operation of the program.
Next == NextFlights \/ NextTickets \/ NextLayout \/ NextSave \/ NextConc
Spec == Init /\ [][Next]_vars

\* ------------------------------------------------ claims on the flight writes
FlightWritten == last.op = "flight"
\* The stored flights other than the one the last request wrote or tried to write.
Others == stored(flights, NoFlight) \ (IF FlightWritten THEN {last.id} ELSE {})
ValidWindow == FlightWritten /\ last.row.departure_time < last.row.arrival_time
Meets(A, departure, arrival) == A.departure_time <= arrival /\ A.arrival_time >= departure
\* Members of the candidate or of the stored roster with another flight meeting the window.
CrewInConflict ==
  {m \in last.row.crew_members \cup last.before.crew_members :
     \E i \in Others : m \in flights[i].crew_members
                       /\ Meets(flights[i], last.row.departure_time, last.row.arrival_time)}
AirplaneInConflict ==
  \E i \in Others : flights[i].airplane = last.row.airplane
                    /\ Meets(flights[i], last.row.departure_time, last.row.arrival_time)

\* C1: after any sequence of admin flight creates and updates, no two distinct
\* stored flights of one airplane have windows that meet (closed intervals).
C1_NoAirplaneDoubleBooking ==
  \A i, j \in stored(flights, NoFlight) :
    (i # j /\ flights[i].airplane = flights[j].airplane)
      => ~(flights[i].departure_time <= flights[j].arrival_time
           /\ flights[i].arrival_time >= flights[j].departure_time)

\* A second flight was just accepted on an airplane that already had one.
C1_Witness ==
  /\ FlightWritten /\ last.ok
  /\ \E i \in Others : flights[i].airplane = last.row.airplane

\* C2: after any sequence of admin flight writes (window and roster edits), no
\* crew member is on two distinct stored flights whose windows meet.
C2_NoCrewDoubleBooking ==
  \A i, j \in stored(flights, NoFlight) : \A m \in CrewMembers :
    (i # j /\ m \in flights[i].crew_members /\ m \in flights[j].crew_members)
      => ~(flights[i].departure_time <= flights[j].arrival_time
           /\ flights[i].arrival_time >= flights[j].departure_time)

\* A roster edit just added, to a stored flight, a member who has another flight.
C2_Witness ==
  /\ FlightWritten /\ last.ok /\ last.pk # NoPk
  /\ \E m \in last.row.crew_members \ last.before.crew_members :
       \E i \in Others : m \in flights[i].crew_members

C9_TimeOrderingCheckedFirst ==
  (FlightWritten /\ last.row.arrival_time <= last.row.departure_time)
    => last.model_error.kind = "time"

\* C10: saving a stored flight again with the fields it already has succeeds and
\* leaves its row as it was.
C10_ReSaveUnchanged ==
  (FlightWritten /\ last.pk # NoPk /\ last.row = last.before)
    => last.ok /\ flights[last.pk] = last.before

\* A flight was saved again unchanged while another flight shares its airplane.
C10_Witness ==
  /\ FlightWritten /\ last.pk # NoPk /\ last.row = last.before /\ last.ok
  /\ \E i \in Others : flights[i].airplane = last.row.airplane

TicketWritten == last.op = "ticket"
\* Thousandths of the currency unit the saved ticket's route and class give.
Thousandths == routes[flights[last.flight].route].distance * Multiplier(last.seat_class)
Abs(x) == IF x < 0 THEN -x ELSE x

\* C6: after a successful Ticket save the stored price is 0.1 * distance *
\* multiplier rounded to the nearest cent (a tie going to the even cent),
\* whatever price was supplied.
C6_PriceIsDerived ==
  (TicketWritten /\ last.ok)
    => LET cents == tickets[last.id].price
       IN  /\ Abs(10 * cents - Thousandths) <= 5
           /\ Abs(10 * cents - Thousandths) = 5 => cents % 2 = 0

\* A ticket was saved with a supplied price other than the derived one, on a
\* route and class whose product is a tie between two cents.
C6_Witness ==
  /\ TicketWritten /\ last.ok
  /\ last.supplied # tickets[last.id].price
  /\ Thousandths % 10 = 5

\* C7: no stored flight has arrival_time <= departure_time or meets another
\* flight of its airplane, and no stored route has source = destination or
\* distance <= 0, after any sequence of saves.
C7_OnlyValidatedRowsStored ==
  /\ \A i \in stored(flights, NoFlight) :
       /\ flights[i].arrival_time > flights[i].departure_time
       /\ \A j \in stored(flights, NoFlight) :
            (i # j /\ flights[i].airplane = flights[j].airplane)
              => ~Meets(flights[i], flights[j].departure_time, flights[j].arrival_time)
  /\ \A r \in RouteIds : routes[r].source # routes[r].destination /\ routes[r].distance > 0

\* C8: every stored ticket's row and seat lie within the layout of the airplane
\* now assigned to its flight.
C8_TicketsWithinLayout ==
  \A t \in stored(tickets, NoTicket) :
    LET airplane == airplanes[flights[tickets[t].flight].airplane]
    IN  /\ 1 <= tickets[t].row /\ tickets[t].row <= airplane.rows
        /\ 1 <= tickets[t].seat /\ tickets[t].seat <= airplane.seats_in_row

====
